---- MODULE Spec2Model ----
(***************************************************************************)
(* Model of mil_ros_tools/geometry_helpers.py.                             *)
(*                                                                         *)
(* Every function of the module is pure; the state machine records one     *)
(* call at a time: which function was called (op), its arguments (args)    *)
(* and what the call produced (res): a value or a raised exception.        *)
(*                                                                         *)
(* Numbers.  A float is modelled by an exact rational <<n, d>> in lowest   *)
(* terms with d > 0.  The IEEE non-finite values numpy produces on a       *)
(* division by zero are kept: <<0, 0>> is nan, <<1, 0>> is +inf and        *)
(* <<-1, 0>> is -inf.  Rounding is not modelled, so "approximately equal"  *)
(* in the library's results is exact equality here, except where the code  *)
(* itself compares with a tolerance (np.isclose).  Square roots are exact: *)
(* the argument sets below only hold vectors whose Euclidean norm is       *)
(* rational.  arccos is kept symbolic (see QuatToRotvec).                  *)
(***************************************************************************)
EXTENDS Integers, Sequences, FiniteSets, TLC

VARIABLES op, args, res

vars == <<op, args, res>>

\* ---- bounds of the argument sets ----------------------------------------
MaxCoord == 2   \* |component| of the 3-vectors and of the quaternions of quat_to_rotvec
MaxQ == 1       \* |component| of the quaternions of rotate_vect_by_quat
MaxBound == 3   \* largest lower_bound / upper_bound of clip_norm

\* ---- integer helpers -----------------------------------------------------
Abs(x) == IF x < 0 THEN -x ELSE x

Sign(x) == IF x < 0 THEN -1 ELSE IF x = 0 THEN 0 ELSE 1

RECURSIVE GCD(_, _)
GCD(a, b) == IF b = 0 THEN a ELSE GCD(b, a % b)

\* floor of the square root of n >= 0, by bisection on lo..hi
RECURSIVE ISqrtIn(_, _, _)
ISqrtIn(n, lo, hi) ==
    IF lo >= hi THEN lo
    ELSE LET mid == (lo + hi + 1) \div 2
         IN  IF mid * mid <= n THEN ISqrtIn(n, mid, hi) ELSE ISqrtIn(n, lo, mid - 1)

ISqrt(n) == ISqrtIn(n, 0, IF n < 46340 THEN n ELSE 46340)

IsSquare(n) == n >= 0 /\ ISqrt(n) * ISqrt(n) = n

\* ---- floats as exact rationals, with nan and +-inf ------------------------
Rat(n, d) ==
    IF d = 0 THEN <<Sign(n), 0>>
    ELSE LET g == GCD(Abs(n), Abs(d))
         IN  <<Sign(d) * (n \div g), Abs(d) \div g>>

NaN == <<0, 0>>

R0 == <<0, 1>>

R1 == <<1, 1>>

FromInt(i) == <<i, 1>>

IsFinite(x) == x[2] # 0

IsNaN(x) == x = NaN

RNeg(x) == <<-x[1], x[2]>>

RAbs(x) == <<Abs(x[1]), x[2]>>

RAdd(x, y) ==
    IF x[2] = 0 /\ y[2] = 0
    THEN (IF x = y THEN x ELSE NaN)          \* inf + inf, inf - inf, nan
    ELSE Rat(x[1] * y[2] + y[1] * x[2], x[2] * y[2])

RSub(x, y) == RAdd(x, RNeg(y))

RMul(x, y) == Rat(x[1] * y[1], x[2] * y[2])

\* 1/x: 1/0 is inf, 1/inf is 0, 1/nan is nan
RInv(x) ==
    IF x[2] = 0 THEN (IF x[1] = 0 THEN NaN ELSE R0)
    ELSE IF x[1] = 0 THEN <<1, 0>>
    ELSE <<Sign(x[1]) * x[2], Abs(x[1])>>

\* x / y with numpy's default error state: a zero divisor gives nan or inf
\* (and a RuntimeWarning), it does not raise
RDiv(x, y) == RMul(x, RInv(y))

\* comparisons are false when a nan is involved
RLt(x, y) ==
    /\ ~IsNaN(x)
    /\ ~IsNaN(y)
    /\ IF x[2] = 0 /\ y[2] = 0 THEN x[1] < y[1]      \* both infinite
       ELSE x[1] * y[2] < y[1] * x[2]

RLe(x, y) == ~IsNaN(x) /\ ~IsNaN(y) /\ (x = y \/ RLt(x, y))

\* exact square root of a rational that has one
RSqrt(x) ==
    IF x[2] = 0 THEN x
    ELSE <<ISqrt(x[1]), ISqrt(x[2])>>

\* np.isclose(a, b, rtol, atol): |a - b| <= atol + rtol * |b|
RTol == <<1, 100000>>        \* numpy's default rtol = 1e-05

DefaultATol == <<1, 100000000>>   \* numpy's default atol = 1e-08

IsClose(a, b, atol) ==
    IF IsFinite(a) /\ IsFinite(b)
    THEN RLe(RAbs(RSub(a, b)), RAdd(atol, RMul(RTol, RAbs(b))))
    ELSE ~IsNaN(a) /\ a = b

\* ---- vectors (sequences of floats) and 3x3 matrices (sequences of rows) ---
ToVec(iv) == [i \in 1..Len(iv) |-> FromInt(iv[i])]

VNeg(v) == [i \in 1..Len(v) |-> RNeg(v[i])]

VScale(v, k) == [i \in 1..Len(v) |-> RMul(v[i], k)]

VDiv(v, k) == [i \in 1..Len(v) |-> RDiv(v[i], k)]

RECURSIVE SumTo(_, _)
SumTo(s, n) == IF n = 0 THEN R0 ELSE RAdd(SumTo(s, n - 1), s[n])

Dot(u, v) == SumTo([i \in 1..Len(u) |-> RMul(u[i], v[i])], Len(u))

NormSq(v) == Dot(v, v)

\* np.linalg.norm(v)
Norm(v) == RSqrt(NormSq(v))

Cross(a, b) ==
    << RSub(RMul(a[2], b[3]), RMul(a[3], b[2])),
       RSub(RMul(a[3], b[1]), RMul(a[1], b[3])),
       RSub(RMul(a[1], b[2]), RMul(a[2], b[1])) >>

Eye3 == << <<R1, R0, R0>>, <<R0, R1, R0>>, <<R0, R0, R1>> >>

MatAdd(A, B) == [i \in 1..3 |-> [j \in 1..3 |-> RAdd(A[i][j], B[i][j])]]

MatScale(A, k) == [i \in 1..3 |-> [j \in 1..3 |-> RMul(A[i][j], k)]]

MatMul(A, B) ==
    [i \in 1..3 |-> [j \in 1..3 |->
        RAdd(RAdd(RMul(A[i][1], B[1][j]), RMul(A[i][2], B[2][j])), RMul(A[i][3], B[3][j]))]]

MatVec(A, v) == [i \in 1..3 |-> Dot(A[i], v)]

Transpose(A) == [i \in 1..3 |-> [j \in 1..3 |-> A[j][i]]]

Det(A) ==
    RAdd(RSub(RMul(A[1][1], RSub(RMul(A[2][2], A[3][3]), RMul(A[2][3], A[3][2]))),
              RMul(A[1][2], RSub(RMul(A[2][1], A[3][3]), RMul(A[2][3], A[3][1])))),
         RMul(A[1][3], RSub(RMul(A[2][1], A[3][2]), RMul(A[2][2], A[3][1]))))

\* ---- results of a call ----------------------------------------------------
Ok(v) == [kind |-> "ok", val |-> v, exc |-> ""]

Raise(e) == [kind |-> "error", val |-> <<>>, exc |-> e]

\* ---- tf.transformations, as geometry_helpers.py uses it -------------------
\* quaternion_multiply(quaternion1, quaternion0), quaternions as (x, y, z, w);
\* both arguments are unpacked into four names
QuaternionMultiply(q1, q0) ==
    << RAdd(RAdd(RSub(RMul(q1[1], q0[4]), RMul(RNeg(q1[2]), q0[3])), RNeg(RMul(q1[3], q0[2]))),
            RMul(q1[4], q0[1])),
       RAdd(RAdd(RAdd(RMul(RNeg(q1[1]), q0[3]), RMul(q1[2], q0[4])), RMul(q1[3], q0[1])),
            RMul(q1[4], q0[2])),
       RAdd(RAdd(RSub(RMul(q1[1], q0[2]), RMul(q1[2], q0[1])), RMul(q1[3], q0[4])),
            RMul(q1[4], q0[3])),
       RAdd(RSub(RSub(RSub(R0, RMul(q1[1], q0[1])), RMul(q1[2], q0[2])), RMul(q1[3], q0[3])),
            RMul(q1[4], q0[4])) >>

\* unit_vector(data): data / sqrt(dot(data, data))
UnitVector(q) == VDiv(q, Norm(q))

\* ---- geometry_helpers.py --------------------------------------------------
\* v[1:] *= -1 : every component from index 1 on (0-based) is negated
NegateFromIndex1(p) == [i \in 1..Len(p) |-> IF i >= 2 THEN RNeg(p[i]) ELSE p[i]]

\* a variant that negates the vector part x, y, z (0-based indices 0..2)
NegateVectorPart(p) == [i \in 1..Len(p) |-> IF i <= 3 THEN RNeg(p[i]) ELSE p[i]]

RotateVectByQuatNegXYZ(v, q) ==
    IF Len(q) < 4 THEN Raise("IndexError")
    ELSE IF Len(v) # 4 \/ Len(q) # 4 THEN Raise("ValueError")
    ELSE LET cq   == <<RNeg(q[1]), RNeg(q[2]), RNeg(q[3]), q[4]>>
             cq_v == QuaternionMultiply(cq, v)
             p    == QuaternionMultiply(cq_v, q)
         IN  Ok(SubSeq(NegateVectorPart(p), 1, 3))

RotateVectByQuat(v, q) ==
    IF Len(q) < 4 THEN Raise("IndexError")                    \* q[3] in line 15
    ELSE IF Len(v) # 4 \/ Len(q) # 4 THEN Raise("ValueError") \* unpacking in quaternion_multiply
    ELSE LET cq   == <<RNeg(q[1]), RNeg(q[2]), RNeg(q[3]), q[4]>>
             cq_v == QuaternionMultiply(cq, v)
             p    == QuaternionMultiply(cq_v, q)
         IN  Ok(SubSeq(NegateFromIndex1(p), 1, 3))

Normalize(vector) == VDiv(vector, Norm(vector))

SkewSymmetricCross(a) ==
    IF Len(a) # 3 THEN Raise("AssertionError")
    ELSE Ok(<< <<R0, RNeg(a[3]), a[2]>>,
               <<a[3], R0, RNeg(a[1])>>,
               <<RNeg(a[2]), a[1], R0>> >>)

\* atol=1e-4 of the two np.isclose calls of make_rotation
MakeRotationATol == <<1, 10000>>

AntiparallelR == << <<R1, R0, R0>>, <<R0, R1, R0>>, <<R0, R0, RNeg(R1)>> >>

MakeRotation(vector_a, vector_b) ==
    LET unit_a == Normalize(vector_a)
        unit_b == Normalize(vector_b)
        v      == Cross(unit_a, unit_b)
        s2     == NormSq(v)               \* s ** 2 with s = np.linalg.norm(v)
        c      == Dot(unit_a, unit_b)
        skew_cross   == SkewSymmetricCross(v).val
        skew_squared == MatMul(skew_cross, skew_cross)
        normalization == RDiv(RSub(R1, c), s2)
        R      == MatAdd(MatAdd(Eye3, skew_cross), MatScale(skew_squared, normalization))
    IN  IF IsClose(c, R1, MakeRotationATol) THEN Ok(Eye3)
        ELSE IF IsClose(c, RNeg(R1), MakeRotationATol) THEN Ok(AntiparallelR)
        ELSE IF RLt(Det(R), R0) THEN Raise("IndexError")   \* R[:, 3] of a 3x3 array
        ELSE Ok(R)

\* transformation[:3, :3] = R; transformation[3, :3] = t; transformation[3, 3] = 1.0
\* numpy broadcasts a t of length 1 over the three cells and rejects every
\* other length than 1 and 3
ComposeTransformation(R, t) ==
    IF Len(t) \notin {1, 3} THEN Raise("ValueError")
    ELSE LET row == IF Len(t) = 1 THEN <<t[1], t[1], t[1]>> ELSE t
         IN  Ok(<< <<R[1][1], R[1][2], R[1][3], R0>>,
                   <<R[2][1], R[2][2], R[2][3], R0>>,
                   <<R[3][1], R[3][2], R[3][3], R0>>,
                   <<row[1], row[2], row[3], R1>> >>)

\* a variant that rescales a short vector to upper_bound as well
ClipNormAlwaysUpper(vector, lower_bound, upper_bound) ==
    LET norm == Norm(vector)
    IN  IF RLt(lower_bound, norm) /\ RLt(norm, upper_bound) THEN Ok(vector)
        ELSE Ok(VDiv(VScale(vector, upper_bound), norm))

ClipNorm(vector, lower_bound, upper_bound) ==
    LET norm == Norm(vector)
    IN  IF RLt(lower_bound, norm) /\ RLt(norm, upper_bound) THEN Ok(vector)
        ELSE IF RLt(norm, lower_bound) THEN Ok(VDiv(VScale(vector, lower_bound), norm))
        ELSE Ok(VDiv(VScale(vector, upper_bound), norm))

\* The value of quat_to_rotvec is vec * angle.  arccos has no rational value,
\* so the angle is kept as a term: TwiceArccos(x) stands for np.arccos(x) * 2
\* and Literal for the factor of a vector that is returned as written.
TwiceArccos(x) == [sym |-> "2*arccos", x |-> x]

Literal == [sym |-> "1", x |-> R1]

Head3(q) == SubSeq(q, 1, IF Len(q) < 3 THEN Len(q) ELSE 3)   \* q[0:3]

AllCloseToZero(v) == \A i \in 1..Len(v) : IsClose(v[i], R0, DefaultATol)

\* a variant without the sign canonicalisation of lines 139-140
QuatToRotvecNoFlip(q) ==
    IF AllCloseToZero(Head3(q)) THEN Ok([vec |-> <<R0, R0, R0>>, angle |-> Literal])
    ELSE IF Len(q) < 4 THEN Raise("IndexError")
    ELSE LET qu    == UnitVector(q)
             angle == TwiceArccos(qu[4])
             norm  == Norm(qu)
             axis  == VDiv(Head3(qu), norm)
         IN  Ok([vec |-> axis, angle |-> angle])

QuatToRotvec(q) ==
    IF AllCloseToZero(Head3(q)) THEN Ok([vec |-> <<R0, R0, R0>>, angle |-> Literal])
    ELSE IF Len(q) < 4 THEN Raise("IndexError")              \* q[3]
    ELSE LET qs    == IF RLt(q[4], R0) THEN VNeg(q) ELSE q
             qu    == UnitVector(qs)
             angle == TwiceArccos(qu[4])
             norm  == Norm(qu)
             axis  == VDiv(Head3(qu), norm)
         IN  Ok([vec |-> axis, angle |-> angle])

\* ---- the arguments the calls are made with -------------------------------
Coords == (0 - MaxCoord)..MaxCoord

IntNormSq3(x, y, z) == x * x + y * y + z * z

\* 3-vectors with integer components and a rational norm (the zero vector included)
Vec3s == { ToVec(<<x, y, z>>) : <<x, y, z>> \in
             { t \in Coords \X Coords \X Coords : IsSquare(IntNormSq3(t[1], t[2], t[3])) } }

\* a pair of directions 0.0147 rad apart: cos = 18495/18497 is within the
\* tolerance of np.isclose(c, 1.0, atol=1e-4) although the vectors differ
NearParallelA == ToVec(<<1, 0, 0>>)

NearParallelB == ToVec(<<18495, 272, 0>>)

RotationPairs == (Vec3s \X Vec3s) \cup {<<NearParallelA, NearParallelB>>,
                                        <<NearParallelB, NearParallelA>>}

\* sequences of the wrong length
Len2s == { ToVec(<<x, y>>) : <<x, y>> \in (0..1) \X (0..1) }

Len4s == { ToVec(<<x, y, z, w>>) : <<x, y, z, w>> \in (0..1) \X {0} \X {0} \X (0..1) }

Len1s == { ToVec(<<x>>) : x \in 0..MaxCoord }

SkewArgs == Vec3s \cup Len2s \cup Len4s

TranslationArgs == Vec3s \cup Len1s \cup Len2s \cup Len4s

RotationArgs == {Eye3, AntiparallelR}

ClipBounds == { FromInt(i) : i \in (0 - 1)..MaxBound }

\* quaternions (x, y, z, w) with integer components and a rational norm
Quats == { ToVec(<<x, y, z, w>>) : <<x, y, z, w>> \in
             { t \in Coords \X Coords \X Coords \X Coords :
                   IsSquare(IntNormSq3(t[1], t[2], t[3]) + t[4] * t[4]) } }

\* sequences of 3 and of 5 components passed as a quaternion
Short3s == { ToVec(<<x, y, z>>) : <<x, y, z>> \in (0..1) \X (0..1) \X (0..1) }

Long5s == { ToVec(<<x, y, z, w, e>>) : <<x, y, z, w, e>> \in
              { t \in ((0 - 1)..1) \X {0} \X ((0 - 1)..1) \X ((0 - 1)..1) \X (0..1) :
                    IsSquare(IntNormSq3(t[1], t[3], t[4]) + t[5] * t[5]) } }

RotvecArgs == Quats \cup Short3s \cup Long5s

QCoords == (0 - MaxQ)..MaxQ

\* the vector of rotate_vect_by_quat as a quaternion: pure (w = 0) or not
RotateVs == { ToVec(<<x, y, z, w>>) : <<x, y, z, w>> \in QCoords \X QCoords \X QCoords \X (0..1) }
            \cup Short3s

RotateQs == { ToVec(<<x, y, z, w>>) : <<x, y, z, w>> \in QCoords \X QCoords \X QCoords \X QCoords }
            \cup { ToVec(<<1, 0, 0>>), ToVec(<<0, 0, 0, 1, 0>>) }

\* ---- the state machine ----------------------------------------------------
Init ==
    /\ op = "none"
    /\ args = <<>>
    /\ res = [kind |-> "none", val |-> <<>>, exc |-> ""]

CallRotateVectByQuat ==
    /\ op = "none"
    /\ \E v \in RotateVs, q \in RotateQs :
               /\ op' = "rotate_vect_by_quat"
               /\ args' = <<v, q>>
               /\ res' = RotateVectByQuat(v, q)

CallMakeRotation ==
    /\ op = "none"
    /\ \E p \in RotationPairs :
               /\ op' = "make_rotation"
               /\ args' = p
               /\ res' = MakeRotation(p[1], p[2])

CallSkewSymmetricCross ==
    /\ op = "none"
    /\ \E a \in SkewArgs :
               /\ op' = "skew_symmetric_cross"
               /\ args' = <<a>>
               /\ res' = SkewSymmetricCross(a)

CallNormalize ==
    /\ op = "none"
    /\ \E v \in Vec3s :
               /\ op' = "normalize"
               /\ args' = <<v>>
               /\ res' = Ok(Normalize(v))

CallComposeTransformation ==
    /\ op = "none"
    /\ \E R \in RotationArgs, t \in TranslationArgs :
               /\ op' = "compose_transformation"
               /\ args' = <<R, t>>
               /\ res' = ComposeTransformation(R, t)

CallClipNorm ==
    /\ op = "none"
    /\ \E v \in Vec3s, lo \in ClipBounds, hi \in ClipBounds :
               /\ op' = "clip_norm"
               /\ args' = <<v, lo, hi>>
               /\ res' = ClipNorm(v, lo, hi)

CallQuatToRotvec ==
    /\ op = "none"
    /\ \E q \in RotvecArgs :
               /\ op' = "quat_to_rotvec"
               /\ args' = <<q>>
               /\ res' = QuatToRotvec(q)

\* the caller drops the result; nothing persists across calls
Discard ==
    /\ op # "none"
    /\ op' = "none"
    /\ args' = <<>>
    /\ res' = [kind |-> "none", val |-> <<>>, exc |-> ""]

Next ==
    \/ CallRotateVectByQuat
    \/ CallMakeRotation
    \/ CallSkewSymmetricCross
    \/ CallNormalize
    \/ CallComposeTransformation
    \/ CallClipNorm
    \/ CallQuatToRotvec
    \/ Discard

Spec == Init /\ [][Next]_vars

TypeOK ==
    /\ op \in {"none", "rotate_vect_by_quat", "make_rotation", "skew_symmetric_cross",
               "normalize", "compose_transformation", "clip_norm", "quat_to_rotvec"}
    /\ res.kind \in {"none", "ok", "error"}

\* ---- properties -----------------------------------------------------------
IsZeroVec(v) == \A i \in 1..Len(v) : v[i] = R0

\* componentwise tolerance on directions that corresponds to the 1e-4
\* tolerance make_rotation puts on the cosine (an angle of about 0.015 rad)
AlignTol == <<2, 100>>

VecClose(u, w, tol) ==
    \A i \in 1..3 : IsFinite(u[i]) /\ IsFinite(w[i]) /\ RLe(RAbs(RSub(u[i], w[i])), tol)

IsProperRotation(R) == MatMul(Transpose(R), R) = Eye3 /\ Det(R) = R1

NonzeroPair == op = "make_rotation" /\ ~IsZeroVec(args[1]) /\ ~IsZeroVec(args[2])

\* C1: for every pair of nonzero vectors a, b (parallel and antiparallel pairs
\* included) make_rotation(a, b) returns R with R . normalize(a) equal to
\* normalize(b) within tolerance.
C1_RotatesAOntoB ==
    NonzeroPair =>
        /\ res.kind = "ok"
        /\ VecClose(MatVec(res.val, Normalize(args[1])), Normalize(args[2]), AlignTol)

\* C2: every matrix make_rotation returns for nonzero vectors is a proper
\* rotation: orthogonal, with determinant +1.
C2_ReturnsProperRotation ==
    (NonzeroPair /\ res.kind = "ok") => IsProperRotation(res.val)

RotvecCase ==
    /\ op = "quat_to_rotvec"
    /\ Len(args[1]) = 4
    /\ ~AllCloseToZero(Head3(args[1]))

\* C3: for a quaternion whose vector part is not approximately zero,
\* quat_to_rotvec returns axis * angle with axis the unit vector along the
\* vector part and angle = 2 * arccos(w) of the sign-canonicalised unit
\* quaternion, so that the magnitude of the result is the angle.
C3_UnitAxisTimesAngle ==
    RotvecCase =>
        LET q  == args[1]
            qu == UnitVector(IF RLt(q[4], R0) THEN VNeg(q) ELSE q)
        IN  /\ res.kind = "ok"
            /\ res.val.angle = TwiceArccos(qu[4])
            /\ NormSq(res.val.vec) = R1
            /\ IsZeroVec(Cross(res.val.vec, Head3(qu)))
            /\ RLt(R0, Dot(res.val.vec, Head3(qu)))

\* vec * angle is the zero vector
IsZeroRotvec(val) == IsZeroVec(val.vec) \/ val.angle = TwiceArccos(R1)

\* two results of quat_to_rotvec are the same outcome
SameRotvec(r1, r2) ==
    /\ r1.kind = r2.kind
    /\ r1.exc = r2.exc
    /\ r1.kind = "ok" => \/ IsZeroRotvec(r1.val) /\ IsZeroRotvec(r2.val)
                         \/ r1.val = r2.val

\* C4 as stated: for every 4-component quaternion q, quat_to_rotvec(q) equals
\* quat_to_rotvec(-q).
C4_SameForNegatedQuat ==
    (op = "quat_to_rotvec" /\ Len(args[1]) = 4) =>
        SameRotvec(res, QuatToRotvec(VNeg(args[1])))

\* C4 as amended: for every 4-component quaternion q with q.w # 0, or with a
\* vector part that is approximately zero, quat_to_rotvec(q) equals
\* quat_to_rotvec(-q).
C4_SameForNegatedQuatNonzeroW ==
    (/\ op = "quat_to_rotvec"
     /\ Len(args[1]) = 4
     /\ (args[1][4] # R0 \/ AllCloseToZero(Head3(args[1])))) =>
        SameRotvec(res, QuatToRotvec(VNeg(args[1])))

\* a quaternion with w < 0 and a nonzero vector part was converted
C4_Witness ==
    /\ RotvecCase
    /\ RLt(args[1][4], R0)
    /\ res.kind = "ok"
    /\ RLt(R0, res.val.angle.x)

ClipCase ==
    /\ op = "clip_norm"
    /\ ~IsZeroVec(args[1])
    /\ RLt(R0, args[2])
    /\ RLt(args[2], args[3])

Sq(x) == RMul(x, x)

\* C5: when the norm of the vector equals lower_bound or upper_bound exactly
\* (lower_bound < upper_bound), clip_norm returns the vector unchanged.
\* (Stated for vectors of nonzero norm; the norm 0 is the case of C7.)
C5_UnchangedOnBoundary ==
    (/\ op = "clip_norm"
     /\ ~IsZeroVec(args[1])
     /\ RLt(args[2], args[3])
     /\ (Norm(args[1]) = args[2] \/ Norm(args[1]) = args[3])) =>
        res = Ok(args[1])

\* C6: for a nonzero v and 0 < lo < hi the norm of clip_norm(v, lo, hi) lies in
\* [lo, hi] and the result is a positive multiple of v: v itself when
\* lo < |v| < hi, of norm lo when |v| < lo, of norm hi when |v| > hi.
C6_ClipNormInRange ==
    ClipCase =>
        LET v  == args[1]
            lo == args[2]
            hi == args[3]
            r  == res.val
            k  == RDiv(Dot(r, v), NormSq(v))
        IN  /\ res.kind = "ok"
            /\ RLe(Sq(lo), NormSq(r))
            /\ RLe(NormSq(r), Sq(hi))
            /\ RLt(R0, k)
            /\ r = VScale(v, k)
            /\ (RLt(Sq(lo), NormSq(v)) /\ RLt(NormSq(v), Sq(hi))) => r = v
            /\ RLt(NormSq(v), Sq(lo)) => NormSq(r) = Sq(lo)
            /\ RLt(Sq(hi), NormSq(v)) => NormSq(r) = Sq(hi)

\* a vector shorter than lo was stretched to norm lo
C6_Witness ==
    /\ ClipCase
    /\ RLt(NormSq(args[1]), Sq(args[2]))
    /\ res.kind = "ok"
    /\ res.val # args[1]
    /\ NormSq(res.val) = Sq(args[2])

\* C7: normalize of a zero vector, clip_norm of a vector of norm 0 and
\* make_rotation with a zero vector end in an error, not in a value.
C7_ZeroNormFails ==
    /\ (op = "normalize" /\ IsZeroVec(args[1])) => res.kind = "error"
    /\ (op = "clip_norm" /\ IsZeroVec(args[1])) => res.kind = "error"
    /\ (op = "make_rotation" /\ (IsZeroVec(args[1]) \/ IsZeroVec(args[2]))) =>
           res.kind = "error"

\* C8: skew_symmetric_cross and the translation of compose_transformation
\* given other than 3 components, quat_to_rotvec and rotate_vect_by_quat given
\* a quaternion of other than 4 components, fail with an error.
C8_WrongLengthFails ==
    /\ (op = "skew_symmetric_cross" /\ Len(args[1]) # 3) => res.kind = "error"
    /\ (op = "compose_transformation" /\ Len(args[2]) # 3) => res.kind = "error"
    /\ (op = "quat_to_rotvec" /\ Len(args[1]) # 4) => res.kind = "error"
    /\ (op = "rotate_vect_by_quat" /\ Len(args[2]) # 4) => res.kind = "error"

RotateCase ==
    /\ op = "rotate_vect_by_quat"
    /\ Len(args[1]) = 4
    /\ Len(args[2]) = 4
    /\ args[1][4] = R0

\* p = (cq * v) * q with cq = (-x, -y, -z, w)
ConjugatedProduct(v, q) ==
    QuaternionMultiply(
        QuaternionMultiply(<<RNeg(q[1]), RNeg(q[2]), RNeg(q[3]), q[4]>>, v), q)

\* C9 as stated: with v a pure quaternion, rotate_vect_by_quat(v, q) returns
\* (-p.x, -p.y, -p.z) for p = (cq * v) * q.
C9_NegatesXYZ ==
    RotateCase =>
        LET p == ConjugatedProduct(args[1], args[2])
        IN  res = Ok(<<RNeg(p[1]), RNeg(p[2]), RNeg(p[3])>>)

\* C9 as amended: with v a pure quaternion, rotate_vect_by_quat(v, q) negates
\* the components of p = (cq * v) * q at indices 1..3 (y, z and the scalar w),
\* leaves x alone, and returns (p.x, -p.y, -p.z).
C9_NegatesYZW ==
    RotateCase =>
        LET p == ConjugatedProduct(args[1], args[2])
        IN  res = Ok(<<p[1], RNeg(p[2]), RNeg(p[3])>>)

\* a call whose result has a nonzero x and a nonzero y component
C9_Witness ==
    /\ RotateCase
    /\ res.kind = "ok"
    /\ res.val[1] # R0
    /\ res.val[2] # R0

\* C10: for the identity quaternion rotate_vect_by_quat returns (vx, vy, vz)
\* unchanged, and for every unit quaternion the result has the norm of v.
C10_IdentityAndNorm ==
    RotateCase =>
        /\ res.kind = "ok"
        /\ args[2] = ToVec(<<0, 0, 0, 1>>) => res.val = Head3(args[1])
        /\ NormSq(args[2]) = R1 => NormSq(res.val) = NormSq(Head3(args[1]))

====
